---- MODULE Spec2Model ----
(***************************************************************************)
(* Model of src/interpretability/interpretability_models/shap_explainer.py *)
(*                                                                         *)
(* The module-level import loop, the five SHAP wrapper classes and the     *)
(* shared summary_plot helper.  One explainer instance is modelled; every  *)
(* Python object is a record tagged by "py", an attribute that was never   *)
(* assigned is Missing (reading it raises AttributeError).  The external   *)
(* library (shap, matplotlib, torch) is modelled by the calls made to it:  *)
(* "calls" is the sequence of external calls of the last operation.        *)
(***************************************************************************)
EXTENDS Integers, Sequences, FiniteSets, TLC

\* ---------------------------------------------------------------- bounds
MaxRows == 2        \* rows in the explanation feature set
MaxArgs == 2        \* positional passthrough arguments of explain()
MaxCalls == 2       \* explain() calls per instance that return

\* range(2) of the import loop
Retries == 2

\* ------------------------------------------------------- Python objects
Missing == [py |-> "<unset>"]
None == [py |-> "None"]
PyBool(b) == [py |-> "bool", v |-> b]
PyStr(s) == [py |-> "str", s |-> s]
Arg(id) == [py |-> "arg", id |-> id]
Labels(n) == [py |-> "labels", n |-> n]
Rows(s) == [py |-> "rows", rows |-> s]
Tensor(s) == [py |-> "tensor", rows |-> s]
TheModel == [py |-> "model", id |-> "m"]
EmptyList == [py |-> "list", n |-> 0]
SomeList == [py |-> "list", n |-> 1]

SeqsUpTo(S, n) == UNION {[1..k -> S] : k \in 0..n}

\* the feature rows "r1", "r2", ...
RowAt(i) == "r" \o ToString(i)
RowVals == {RowAt(i) : i \in 1..MaxRows}
ArgVals == {Arg("a"), Arg("b")}
KwKeys == {"X_explain"}
Paths == {"temp_shap_plot.png", "out.png"}
Variants == {"Kernel", "Gradient", "Deep", "Tree", "Linear"}

KwargsOver(K) == {{[key |-> k, val |-> Arg(k)] : k \in S} : S \in SUBSET K}
HasKey(kw, k) == \E e \in kw : e.key = k
\* feature sets of 0..MaxRows rows
FeatureSets == {Rows([i \in 1..n |-> RowAt(i)]) : n \in 0..MaxRows}

\* <<*argv, **kwargs>> of a constructor call: nothing, or one of each
Passthrough ==
    {<<<<>>, {}>>,
     <<<<Arg("a")>>, {[key |-> "link", val |-> Arg("link")]}>>}

\* len() of a label set / feature set
PyLen(o) == IF o.py = "labels" THEN o.n ELSE Len(o.rows)

\* truthiness used by "if not explanation"
Falsy(o) == o = None \/ o = EmptyList

VARIABLES
    lib,             \* environment: "import shap" would succeed
    retry,           \* loop variable of the import loop
    install_calls,   \* number of install(depends) calls
    import_tries,    \* number of "import shap" attempts
    shap_bound,      \* module global "shap" is bound
    mod,             \* "importing" | "loaded" | "import_error"
    cls,             \* class of the instance, "none" before construction
    explain_inputs, explainer, has_been_fit, shap_values, explanation,
    op,              \* the last call made by the caller
    ret,             \* its return value
    raised,          \* the exception it raised, "" if none
    stdout,          \* lines it printed
    calls            \* external calls it made, in order

vars == <<lib, retry, install_calls, import_tries, shap_bound, mod, cls,
          explain_inputs, explainer, has_been_fit, shap_values, explanation,
          op, ret, raised, stdout, calls>>

modvars == <<lib, retry, install_calls, import_tries, shap_bound, mod>>
fields == <<explain_inputs, explainer, has_been_fit, shap_values, explanation>>

\* No instance exists and nothing has been called yet.
NoInstance ==
    /\ cls = "none"
    /\ explain_inputs = Missing
    /\ explainer = Missing
    /\ has_been_fit = Missing
    /\ shap_values = Missing
    /\ explanation = Missing
    /\ op = [name |-> "import"]
    /\ ret = None
    /\ raised = ""
    /\ stdout = <<>>
    /\ calls = <<>>

\* The module is about to be imported; shap may or may not be installed.
InitImport ==
    /\ lib \in BOOLEAN
    /\ retry = 0
    /\ install_calls = 0
    /\ import_tries = 0
    /\ shap_bound = FALSE
    /\ mod = "importing"
    /\ NoInstance

\* The module has been imported with shap installed: the first import
\* succeeded and the loop was left by "break".
Init ==
    /\ lib = TRUE
    /\ retry = 0
    /\ install_calls = 0
    /\ import_tries = 1
    /\ shap_bound = TRUE
    /\ mod = "loaded"
    /\ NoInstance

\* ------------------------------------------------- module import (26-35)
\* One iteration of "for retry in range(2)": try the import; on ImportError
\* call install(depends) and go round again.  When the range is exhausted
\* the loop simply ends and the module body continues.
ImportLoopIteration ==
    /\ mod = "importing"
    /\ retry < Retries
    /\ import_tries' = import_tries + 1
    /\ IF lib
       THEN /\ shap_bound' = TRUE
            /\ mod' = "loaded"
            /\ UNCHANGED <<lib, retry, install_calls>>
       ELSE /\ install_calls' = install_calls + 1
            /\ \E ok \in BOOLEAN : lib' = ok
            /\ retry' = retry + 1
            /\ mod' = IF retry + 1 = Retries THEN "loaded" ELSE "importing"
            /\ UNCHANGED shap_bound
    /\ UNCHANGED <<cls, fields, op, ret, raised, stdout, calls>>

\* ------------------------------------------------------- construction
\* What ShapExplainerBase.__init__ assigns.  No concrete class calls it:
\* each overrides __init__ without a super().__init__ call.
ShapExplainerBase_init ==
    [has_been_fit |-> PyBool(TRUE), shap_values |-> None,
     inner_explainer_save_path |-> None]

\* The external strategy object built by shap.<X>Explainer(model, data, ...);
\* ncalls counts the shap_values calls it has answered.
Strategy(kind, model, data, argv, kwargs) ==
    [py |-> kind, model |-> model, data |-> data, argv |-> argv,
     kwargs |-> kwargs, ncalls |-> 0]

CtorCall(kind, model, data, argv, kwargs) ==
    [fn |-> kind, model |-> model, data |-> data, argv |-> argv,
     kwargs |-> kwargs]

\* Caller side of a construction: Cls(model, X, y, *args, **kwargs)
ConstructFails(c, X, y, args, kw, exc, trace) ==
    /\ op' = [name |-> "__init__", cls |-> c, model |-> TheModel, X |-> X,
              y |-> y, argv |-> args, kwargs |-> kw]
    /\ raised' = exc
    /\ ret' = None
    /\ stdout' = <<>>
    /\ calls' = trace
    /\ UNCHANGED <<modvars, cls, fields>>

\* self.explain_inputs = inputs; self.explainer = shap.<kind>(model, inputs,
\* *argv, **kwargs) with argv/kwargs as bound by the class's signature.
ConstructWith(c, kind, X, y, args, kw, inputs, argv, kwargs, pre) ==
    IF ~shap_bound
    THEN ConstructFails(c, X, y, args, kw, "NameError", pre)
    ELSE /\ op' = [name |-> "__init__", cls |-> c, model |-> TheModel,
                   X |-> X, y |-> y, argv |-> args, kwargs |-> kw]
         /\ cls' = c
         /\ explain_inputs' = inputs
         /\ explainer' = Strategy(kind, TheModel, inputs, argv, kwargs)
         /\ calls' = pre \o <<CtorCall(kind, TheModel, inputs, argv, kwargs)>>
         /\ raised' = ""
         /\ ret' = None
         /\ stdout' = <<>>
         /\ UNCHANGED <<modvars, has_been_fit, shap_values, explanation>>

CanConstruct == mod = "loaded" /\ cls = "none"

\* __init__(self, model, X_explain, y_explain, *argv, **kwargs)
ShapKernelExplainer_init ==
    /\ CanConstruct
    /\ \E X \in FeatureSets, <<args, kw>> \in Passthrough :
          ConstructWith("Kernel", "shap.KernelExplainer", X, Labels(PyLen(X)),
                        args, kw, X, args, kw, <<>>)

ShapGradientExplainer_init ==
    /\ CanConstruct
    /\ \E X \in FeatureSets, <<args, kw>> \in Passthrough :
          ConstructWith("Gradient", "shap.GradientExplainer", X,
                        Labels(PyLen(X)), args, kw, X, args, kw, <<>>)

\* __init__(self, model, X_explain, *argv, **kwargs): there is no y_explain
\* parameter, so the third positional argument of the caller is argv[0].
ShapTreeExplainer_init ==
    /\ CanConstruct
    /\ \E X \in FeatureSets, <<args, kw>> \in Passthrough :
          ConstructWith("Tree", "shap.TreeExplainer", X, Labels(PyLen(X)),
                        args, kw, X, <<Labels(PyLen(X))>> \o args, kw, <<>>)

ShapLinearExplainer_init ==
    /\ CanConstruct
    /\ \E X \in FeatureSets, <<args, kw>> \in Passthrough :
          ConstructWith("Linear", "shap.LinearExplainer", X, Labels(PyLen(X)),
                        args, kw, X, <<Labels(PyLen(X))>> \o args, kw, <<>>)

\* data.TabularDataset(X_explain, y_explain): item i pairs feature row i
\* with label i.
TabularDataset(X, y) ==
    [py |-> "TabularDataset",
     items |-> [i \in 1..PyLen(X) |-> [x |-> X.rows[i], y |-> i]]]

Perms(n) == {p \in [1..n -> 1..n] : \A i, j \in 1..n : p[i] = p[j] => i = j}

Min(a, b) == IF a < b THEN a ELSE b

\* batch_size=len(y_explain)
DeepBatchSizeShort(y) == PyLen(y) - 1
DeepBatchSize(y) == PyLen(y)

\* next(iter(DataLoader(ds, batch_size=bs, shuffle=True))): the first bs
\* items of a random permutation of the dataset, collated column-wise.
FirstBatch(ds, bs, p) ==
    [inputs |-> Tensor([i \in 1..Min(bs, Len(ds.items)) |-> ds.items[p[i]].x]),
     targets |-> [i \in 1..Min(bs, Len(ds.items)) |-> ds.items[p[i]].y]]

LoaderCall(ds, bs) ==
    [fn |-> "DataLoader", dataset |-> ds, batch_size |-> bs, shuffle |-> TRUE]

ShapDeepExplainer_init ==
    /\ CanConstruct
    /\ \E X \in FeatureSets, <<args, kw>> \in Passthrough :
        LET y == Labels(PyLen(X))
            ds == TabularDataset(X, y)
            bs == DeepBatchSize(y)
        IN  IF bs <= 0
            THEN ConstructFails("Deep", X, y, args, kw, "ValueError",
                                <<LoaderCall(ds, bs)>>)
            ELSE IF Len(ds.items) = 0
            THEN ConstructFails("Deep", X, y, args, kw, "StopIteration",
                                <<LoaderCall(ds, bs)>>)
            ELSE \E p \in Perms(Len(ds.items)) :
                   ConstructWith("Deep", "shap.DeepExplainer", X, y, args, kw,
                                 FirstBatch(ds, bs, p).inputs, args, kw,
                                 <<LoaderCall(ds, bs)>>)

\* ------------------------------------------------------------ explain
\* Binding of a call explain(*a, **kw) to explain(self, *argv, **kwargs)
BindVarArgs(a, kw) == [err |-> FALSE, argv |-> a, kwargs |-> kw]

\* Binding of a call explain(*a, **kw) to
\* explain(self, X_explain=None, *argv, **kwargs): the first positional
\* argument, or else the keyword X_explain, binds to X_explain (never read).
BindLinear(a, kw) ==
    IF Len(a) > 0
    THEN [err |-> HasKey(kw, "X_explain"), argv |-> Tail(a), kwargs |-> kw]
    ELSE [err |-> FALSE, argv |-> a,
          kwargs |-> {e \in kw : e.key # "X_explain"}]

\* self.explainer.shap_values(self.explain_inputs, *argv, **kwargs), the
\* k-th call made to this strategy object
ShapValuesCall(data, argv, kwargs, k) ==
    [fn |-> "shap_values", data |-> data, argv |-> argv, kwargs |-> kwargs,
     call |-> k]

\* what the strategy returns for that call
ShapValuesResult(call) == [py |-> "shap_values", of |-> call]

\* the attribution-result container of .base
FeatureExplanation(values) == [py |-> "FeatureExplanation", values |-> values]

\* self.shap_values = <result>
AssignShapValuesAccumulating(old, result) ==
    IF old = Missing THEN result
    ELSE [py |-> "shap_values", of |-> result.of, prev |-> old]
AssignShapValues(old, result) == result

explain_body(c, a, kw, b) ==
    /\ cls = c
    /\ explainer.ncalls < MaxCalls
    /\ op' = [name |-> "explain", argv |-> a, kwargs |-> kw]
    /\ stdout' = <<>>
    /\ IF b.err
       THEN /\ raised' = "TypeError"
            /\ ret' = None
            /\ calls' = <<>>
            /\ UNCHANGED <<modvars, cls, fields>>
       ELSE LET call == ShapValuesCall(explain_inputs, b.argv, b.kwargs,
                                       explainer.ncalls + 1)
            IN  /\ calls' = <<call>>
                /\ \/ /\ explainer' = [explainer EXCEPT !.ncalls = @ + 1]
                      /\ shap_values' =
                           AssignShapValues(shap_values, ShapValuesResult(call))
                      /\ explanation' = FeatureExplanation(shap_values')
                      /\ ret' = explanation'
                      /\ raised' = ""
                   \/ /\ raised' = "StrategyError"
                      /\ ret' = None
                      /\ UNCHANGED <<explainer, shap_values, explanation>>
                /\ UNCHANGED <<modvars, cls, explain_inputs, has_been_fit>>

ExplainArgs == SeqsUpTo(ArgVals, MaxArgs)

ShapKernelExplainer_explain ==
    \E a \in ExplainArgs, kw \in KwargsOver(KwKeys) :
        explain_body("Kernel", a, kw, BindVarArgs(a, kw))

ShapGradientExplainer_explain ==
    \E a \in ExplainArgs, kw \in KwargsOver(KwKeys) :
        explain_body("Gradient", a, kw, BindVarArgs(a, kw))

ShapDeepExplainer_explain ==
    \E a \in ExplainArgs, kw \in KwargsOver(KwKeys) :
        explain_body("Deep", a, kw, BindVarArgs(a, kw))

ShapTreeExplainer_explain ==
    \E a \in ExplainArgs, kw \in KwargsOver(KwKeys) :
        explain_body("Tree", a, kw, BindVarArgs(a, kw))

ShapLinearExplainer_explain ==
    \E a \in ExplainArgs, kw \in KwargsOver(KwKeys) :
        explain_body("Linear", a, kw, BindLinear(a, kw))

\* ---------------------------------------------------------------- fit
FitNotice ==
    "SHAP explainers do not need to be fit. Please simply call explain()."

fit_resetting ==
    /\ cls # "none"
    /\ op' = [name |-> "fit"]
    /\ stdout' = <<FitNotice>>
    /\ ret' = None
    /\ raised' = ""
    /\ calls' = <<>>
    /\ shap_values' = None
    /\ UNCHANGED <<modvars, cls, explain_inputs, explainer, has_been_fit,
                   explanation>>

fit ==
    /\ cls # "none"
    /\ op' = [name |-> "fit"]
    /\ stdout' = <<FitNotice>>
    /\ ret' = None
    /\ raised' = ""
    /\ calls' = <<>>
    /\ UNCHANGED <<modvars, cls, fields>>

\* ------------------------------------------------------- summary_plot
PlotCall(values, data, show) ==
    [fn |-> "shap.summary_plot", values |-> values, data |-> data,
     show |-> show]
SavefigCall(path) == [fn |-> "plt.savefig", path |-> path]

\* the external plot fails on missing attribution data
PlotRaises(values) == values = None

\* "if not show: plt.savefig(save_path)"
SavesWhenShown(show) == show
Saves(show) == ~show

Explanations == {None, SomeList}

summary_plot ==
    /\ cls # "none"
    /\ \E e \in Explanations, show \in BOOLEAN, save_path \in Paths :
        /\ op' = [name |-> "summary_plot", explanation |-> e, show |-> show,
                  save_path |-> save_path]
        /\ IF Falsy(e) /\ shap_values = Missing
           THEN /\ raised' = "AttributeError"
                /\ calls' = <<>>
           ELSE LET v == IF Falsy(e) THEN shap_values ELSE e
                    plot == PlotCall(v, explain_inputs, show)
                IN  IF PlotRaises(v)
                    THEN /\ raised' = "PlotError"
                         /\ calls' = <<plot>>
                    ELSE /\ raised' = ""
                         /\ calls' = IF Saves(show)
                                     THEN <<plot, SavefigCall(save_path)>>
                                     ELSE <<plot>>
    /\ ret' = None
    /\ stdout' = <<>>
    /\ UNCHANGED <<modvars, cls, fields>>

\* ----------------------------------------- name / pretty_name / type
nameCopied(c) ==
    CASE c = "Kernel" -> "shap_kernel_explainer"
      [] c = "Gradient" -> "shap_gradient_explainer"
      [] c = "Deep" -> "shap_deep_explainer"
      [] c = "Tree" -> "shap_tree_explainer"
      [] c = "Linear" -> "shap_tree_explainer"
name(c) ==
    CASE c = "Kernel" -> "shap_kernel_explainer"
      [] c = "Gradient" -> "shap_gradient_explainer"
      [] c = "Deep" -> "shap_deep_explainer"
      [] c = "Tree" -> "shap_tree_explainer"
      [] c = "Linear" -> "shap_linear_explainer"

pretty_name(c) ==
    CASE c = "Kernel" -> "SHAP Kernel Explainer"
      [] c = "Gradient" -> "SHAP Gradient Explainer"
      [] c = "Deep" -> "SHAP Deep Explainer"
      [] c = "Tree" -> "SHAP Tree Explainer"
      [] c = "Linear" -> "SHAP Linear Explainer"

type(c) == "explainer"

\* a static method called on class c: through the instance once there is
\* one, on any class before
StaticCall(method, c, result) ==
    /\ mod = "loaded"
    /\ cls \in {"none", c}
    /\ op' = [name |-> method, cls |-> c]
    /\ ret' = PyStr(result)
    /\ raised' = ""
    /\ stdout' = <<>>
    /\ calls' = <<>>
    /\ UNCHANGED <<modvars, cls, fields>>

call_name == \E c \in Variants : StaticCall("name", c, name(c))
call_pretty_name ==
    \E c \in Variants : StaticCall("pretty_name", c, pretty_name(c))
call_type == \E c \in Variants : StaticCall("type", c, type(c))

Next ==
    \/ ShapKernelExplainer_init
    \/ ShapGradientExplainer_init
    \/ ShapDeepExplainer_init
    \/ ShapTreeExplainer_init
    \/ ShapLinearExplainer_init
    \/ ShapKernelExplainer_explain
    \/ ShapGradientExplainer_explain
    \/ ShapDeepExplainer_explain
    \/ ShapTreeExplainer_explain
    \/ ShapLinearExplainer_explain
    \/ fit
    \/ summary_plot
    \/ call_name
    \/ call_pretty_name
    \/ call_type

Spec == Init /\ [][Next]_vars

\* Importing the module, then constructing and identifying explainers.
NextImport ==
    \/ ImportLoopIteration
    \/ ShapKernelExplainer_init
    \/ ShapGradientExplainer_init
    \/ ShapDeepExplainer_init
    \/ ShapTreeExplainer_init
    \/ ShapLinearExplainer_init
    \/ call_name
    \/ call_pretty_name
    \/ call_type

SpecImport == InitImport /\ [][NextImport]_vars

\* ===================================================== properties

\* C1: explain(*args, **kwargs) of every variant makes one shap_values call
\* whose arguments are the stored explanation inputs followed by exactly the
\* caller's positional arguments, in order, and the caller's keywords.
C1_ForwardsAllArguments ==
    op.name = "explain" =>
        /\ Len(calls) = 1
        /\ calls[1].fn = "shap_values"
        /\ calls[1].data = explain_inputs
        /\ calls[1].argv = op.argv
        /\ calls[1].kwargs = op.kwargs

\* C2: from construction until the first explain(), has_been_fit is True
\* and shap_values exists and is None.
C2_FitOnConstruction ==
    (cls # "none" /\ explainer.ncalls = 0) =>
        /\ has_been_fit = PyBool(TRUE)
        /\ shap_values = None

\* C3: summary_plot() without an explicit explanation, before any explain(),
\* reaches shap.summary_plot with missing attribution data, and the error
\* the caller sees is the one raised by that external call.
C3_PlotBeforeExplainReachesPlot ==
    (op.name = "summary_plot" /\ op.explanation = None
        /\ explainer.ncalls = 0) =>
        /\ Len(calls) >= 1
        /\ calls[1].fn = "shap.summary_plot"
        /\ calls[1].values = None
        /\ raised = "PlotError"

\* C4: with shap missing, install is called at most once and the import is
\* tried at most twice; the module never finishes loading with shap unbound
\* (the second ImportError propagates instead).
C4_InstallOnceThenPropagate ==
    /\ install_calls <= 1
    /\ import_tries <= 2
    /\ (mod = "loaded" => shap_bound)

\* C5: after every successful explain(), shap_values is exactly the result
\* of the strategy call just made (the k-th), explanation is the container
\* of that result and is what was returned; nothing of earlier calls stays.
C5_ExplainOverwrites ==
    (op.name = "explain" /\ raised = "") =>
        /\ Len(calls) = 1
        /\ calls[1].call = explainer.ncalls
        /\ shap_values = ShapValuesResult(calls[1])
        /\ explanation = FeatureExplanation(ShapValuesResult(calls[1]))
        /\ ret = explanation

C5_Witness ==
    /\ op.name = "explain"
    /\ raised = ""
    /\ explainer.ncalls = 2
    /\ shap_values.of.call = 2
    /\ op.argv = <<Arg("b"), Arg("a")>>

\* C6: a fit() call, in any state of the instance, raises nothing, prints
\* the notice, makes no external call and leaves every instance field (and
\* the strategy object) as it was.
C6_FitIsNoOp ==
    [][op'.name = "fit" =>
          /\ raised' = ""
          /\ stdout' = <<FitNotice>>
          /\ calls' = <<>>
          /\ UNCHANGED <<cls, fields>>]_vars

C6_Witness ==
    /\ op.name = "fit"
    /\ raised = ""
    /\ explainer.ncalls = 1
    /\ shap_values # Missing
    /\ explanation = FeatureExplanation(shap_values)

\* C7: once a result is stored, summary_plot(show, save_path) without an
\* explicit explanation calls shap.summary_plot(last values, stored inputs,
\* show=show); with show false it then calls plt.savefig(save_path), with
\* show true it writes nothing; the instance fields are unchanged.
C7_PlotAfterExplain ==
    [][(op'.name = "summary_plot" /\ op'.explanation = None
          /\ shap_values # Missing) =>
          /\ raised' = ""
          /\ calls' = <<PlotCall(shap_values, explain_inputs, op'.show)>>
                      \o (IF op'.show THEN <<>>
                          ELSE <<SavefigCall(op'.save_path)>>)
          /\ UNCHANGED <<cls, fields>>]_vars

C7_Witness ==
    /\ op.name = "summary_plot"
    /\ op.explanation = None
    /\ op.show = FALSE
    /\ op.save_path = "out.png"
    /\ shap_values # Missing
    /\ calls = <<PlotCall(shap_values, explain_inputs, FALSE),
                 SavefigCall("out.png")>>

Count(s, r) == Cardinality({i \in 1..Len(s) : s[i] = r})
IsReordering(s, t) ==
    /\ Len(s) = Len(t)
    /\ \A r \in RowVals : Count(s, r) = Count(t, r)

\* C8: a Deep instance constructed from a feature set and a matching label
\* set of size N stores one batch of exactly N rows that is a reordering of
\* the supplied feature rows.
C8_DeepBatchIsReordering ==
    (op.name = "__init__" /\ op.cls = "Deep" /\ raised = "") =>
        /\ cls = "Deep"
        /\ explain_inputs.py = "tensor"
        /\ Len(explain_inputs.rows) = PyLen(op.y)
        /\ IsReordering(explain_inputs.rows, op.X.rows)
        /\ explainer.data = explain_inputs

C8_Witness ==
    /\ op.name = "__init__"
    /\ op.cls = "Deep"
    /\ raised = ""
    /\ op.X.rows = <<"r1", "r2">>
    /\ PyLen(op.y) = 2
    /\ explain_inputs.rows = <<"r2", "r1">>

LowerCase(c) ==
    CASE c = "Kernel" -> "kernel"
      [] c = "Gradient" -> "gradient"
      [] c = "Deep" -> "deep"
      [] c = "Tree" -> "tree"
      [] c = "Linear" -> "linear"

\* C9: whatever the instance has been through, type() returns "explainer",
\* name() returns shap_<variant>_explainer and pretty_name() returns
\* "SHAP <Variant> Explainer"; the five names are pairwise distinct.
C9_IdentificationTable ==
    /\ op.name = "type" => ret = PyStr("explainer")
    /\ op.name = "name" =>
           ret = PyStr("shap_" \o LowerCase(op.cls) \o "_explainer")
    /\ op.name = "pretty_name" =>
           ret = PyStr("SHAP " \o op.cls \o " Explainer")
    /\ op.name \in {"type", "name", "pretty_name"} =>
           /\ raised = ""
           /\ ret.s # ""
    /\ op.name = "name" =>
           \A c \in Variants \ {op.cls} : PyStr(name(c)) # ret

C9_Witness ==
    /\ op.name = "name"
    /\ op.cls = "Linear"
    /\ cls = "Linear"
    /\ explainer.ncalls = 2
    /\ ret = PyStr("shap_linear_explainer")

\* C10: Kernel, Gradient, Tree and Linear, constructed as
\* Cls(model, X, y, *args, **kwargs), store X as it is and build the
\* external strategy from exactly (model, X, *args, **kwargs); y is not
\* among the arguments of that call.
C10_LabelsNotHandedOver ==
    (op.name = "__init__" /\ op.cls \in Variants \ {"Deep"} /\ raised = "") =>
        /\ explain_inputs = op.X
        /\ Len(calls) = 1
        /\ calls[1].model = op.model
        /\ calls[1].data = op.X
        /\ calls[1].argv = op.argv
        /\ calls[1].kwargs = op.kwargs
        /\ \A i \in 1..Len(calls[1].argv) : calls[1].argv[i] # op.y
====
